---- MODULE Spec2Model ----
(***************************************************************************)
(* Funding-arbitrage opportunity engine: the AutoTradeScheduler scan cycle *)
(* (src/src/scheduler/auto-trade.scheduler.ts, first class of the file),   *)
(* the OpportunityFilter ranker, the ProfitCalculator and the position /   *)
(* PnL ledger.                                                             *)
(*                                                                         *)
(* Units.  Funding rates and profits are integers in units of 0.0001       *)
(* (0.001 = 10, 0.0025 = 25, 0.004 = 40).  Time is in whole hours since    *)
(* the midnight before construction; a date is now \div HoursPerDay.       *)
(* Money (dailyPnL, maxDailyLoss) is in USD.                               *)
(*                                                                         *)
(* Scheduling.  scanForOpportunities is an async function.  Its only real  *)
(* I/O suspension points are the three serial connector calls inside       *)
(* FundingRateService.collectFundingRates; every later await is on an      *)
(* async function that performs no I/O, so the continuation after the last *)
(* connector returns runs as one chain of microtasks that no timer, cron   *)
(* tick or HTTP request can interleave with.  CompleteScan is that chain,  *)
(* taken together with the return of the last connector that starts it.    *)
(***************************************************************************)
EXTENDS Integers, Sequences, FiniteSets, TLC

\* ------------------------------------------------------------------ bounds
MaxCycles == 2
MaxTime == 32

\* ------------------------------------------------------- program constants
MaxDailyLoss == 1000
MaxPositionsPerScenario == 3
CloseAfterHours == 8
HoursPerDay == 24
FundingPeriodHours == 8
TopLimit == 10

\* Resolution of the clock: half a funding period.
ClockStep == FundingPeriodHours \div 2

\* The hour of the day at which the process is constructed (20:00).
StartHour == 2 * FundingPeriodHours + ClockStep

\* The three exchanges every collect* loop iterates, in loop order.
exchanges == <<"Binance", "Bybit", "OKX">>
Exchanges == {exchanges[i] : i \in 1..Len(exchanges)}

\* Symbols quoted by the connectors, in the order their lists carry them.
symbolOrder == <<"BTCUSDT", "ETHUSDT", "SOLUSDT", "XRPUSDT">>
Symbols == {symbolOrder[i] : i \in 1..Len(symbolOrder)}

\* The entry of a symbol a list does not quote.  Rates are in units of
\* 0.0001: -40 is -0.004, 30 is 0.003, 70 is 0.007.
NoQuote == 0 - 9999

\* The rates each exchange quotes in this model: Binance pays shorts
\* nothing (negative funding), OKX is the high-rate venue, Bybit is either.
RatesQuotedBy(exchange) ==
    CASE exchange = "Binance" -> {0 - 40}
      [] exchange = "Bybit" -> {30, 70}
      [] exchange = "OKX" -> {70}

\* The symbols each exchange lists: Binance lists the first only.
SymbolsListedBy(exchange) ==
    IF exchange = "Binance" THEN {symbolOrder[1]} ELSE Symbols

\* What one connector call can produce: an exception, or a list quoting
\* the symbols the exchange lists at one rate.
NoQuotes == [s \in Symbols |-> NoQuote]
ConnectorResults(exchange) ==
    {[ok |-> TRUE,
      quotes |-> [s \in Symbols |->
                    IF s \in SymbolsListedBy(exchange) THEN r ELSE NoQuote]] :
        r \in RatesQuotedBy(exchange)}
    \cup {[ok |-> FALSE, quotes |-> NoQuotes]}

\* Values the ledger balance is drawn from where it is an input.
PnLValues == {0 - (MaxDailyLoss + 1), 0, MaxDailyLoss + 1}

Abs(x) == IF x < 0 THEN 0 - x ELSE x
Min(a, b) == IF a < b THEN a ELSE b
Max(a, b) == IF a > b THEN a ELSE b

\* config.scenarios[id].minProfitThreshold
minProfitThreshold(id) ==
    CASE id = 1 -> 10
      [] id = 2 -> 25
      [] id = 3 -> 25
      [] id = 4 -> 5
      [] id = 5 -> 40

scenarioIds == <<1, 2, 3, 4, 5>>

RECURSIVE Flatten(_)
Flatten(ss) == IF ss = <<>> THEN <<>> ELSE Head(ss) \o Flatten(Tail(ss))

\* --------------------------------------------------------- pure functions

\* ProfitCalculator.isOppositeSign / AutoTradeScheduler.isOppositeSign
isOppositeSign(rate1, rate2) ==
    (rate1 > 0 /\ rate2 < 0) \/ (rate1 < 0 /\ rate2 > 0)

\* AutoTradeScheduler.isSameSign
isSameSign(rate1, rate2) ==
    (rate1 > 0 /\ rate2 > 0) \/ (rate1 < 0 /\ rate2 < 0)

\* Case 1 with Math.abs missing on the second rate.
calculateExpectedProfitSigned(scenarioId, rate1, rate2) ==
    CASE scenarioId = 1 -> Abs(rate1) + rate2
      [] scenarioId = 2 -> Abs(rate1 - rate2)
      [] scenarioId = 3 -> Abs(rate1 - rate2)
      [] scenarioId = 4 -> IF isOppositeSign(rate1, rate2)
                           THEN Abs(rate1) + Abs(rate2)
                           ELSE Abs(rate1 - rate2) \div 2
      [] scenarioId = 5 -> Abs(rate1 - rate2)
      [] OTHER -> Abs(rate1 - rate2)

\* ProfitCalculator.calculateExpectedProfit without mark prices (the
\* scheduler never passes them).  Case 4 halves the spread; the integer
\* division is exact on the even spreads and rounds down otherwise.
calculateExpectedProfit(scenarioId, rate1, rate2) ==
    CASE scenarioId = 1 -> Abs(rate1) + Abs(rate2)
      [] scenarioId = 2 -> Abs(rate1 - rate2)
      [] scenarioId = 3 -> Abs(rate1 - rate2)
      [] scenarioId = 4 -> IF isOppositeSign(rate1, rate2)
                           THEN Abs(rate1) + Abs(rate2)
                           ELSE Abs(rate1 - rate2) \div 2
      [] scenarioId = 5 -> Abs(rate1 - rate2)
      [] OTHER -> Abs(rate1 - rate2)

\* fundingRates.get(exchange) || []  : the quotes of an exchange, none when
\* the exchange is missing from the map.
ratesOf(fundingRates, exchange) ==
    IF exchange \in DOMAIN fundingRates
    THEN fundingRates[exchange].quotes
    ELSE NoQuotes

\* AutoTradeScheduler.findCommonSymbols, in the order of the first list.
findCommonSymbols(rates1, rates2) ==
    SelectSeq(symbolOrder, LAMBDA s : rates1[s] # NoQuote /\ rates2[s] # NoQuote)

\* The (exchange1, exchange2) pairs of the nested loops, in loop order.
exchangePairs ==
    Flatten([i \in 1..Len(exchanges) |->
        Flatten([j \in 1..Len(exchanges) |->
            IF i = j THEN <<>> ELSE << <<exchanges[i], exchanges[j]>> >>])])

\* One record of rawOpportunities (timestamp left out: it is never read).
RawOpp(id, symbol, longEx, shortEx, longRate, shortRate, profit, strategy) ==
    [scenarioId |-> id, symbol |-> symbol,
     longExchange |-> longEx, shortExchange |-> shortEx,
     longFundingRate |-> longRate, shortFundingRate |-> shortRate,
     expectedProfit |-> profit, strategy |-> strategy]

\* The legs taken in iteration order, whatever the signs.
oppositeSignForInOrder(id, e1, e2, symbol, r1, r2) ==
    IF isOppositeSign(r1, r2)
       /\ calculateExpectedProfit(id, r1, r2) >= minProfitThreshold(id)
    THEN << RawOpp(id, symbol, e1, e2, r1, r2,
                   calculateExpectedProfit(id, r1, r2), "") >>
    ELSE <<>>

\* Body of the innermost loop of collectOppositeSignOpportunities.
oppositeSignFor(id, e1, e2, symbol, r1, r2) ==
    IF isOppositeSign(r1, r2)
       /\ calculateExpectedProfit(id, r1, r2) >= minProfitThreshold(id)
    THEN << RawOpp(id, symbol,
                   IF r1 < 0 THEN e1 ELSE e2,
                   IF r1 < 0 THEN e2 ELSE e1,
                   IF r1 < 0 THEN r1 ELSE r2,
                   IF r1 < 0 THEN r2 ELSE r1,
                   calculateExpectedProfit(id, r1, r2), "") >>
    ELSE <<>>

\* The exchanges chosen with the comparison reversed.
sameSignForReversed(id, e1, e2, symbol, r1, r2) ==
    IF isSameSign(r1, r2)
       /\ calculateExpectedProfit(id, r1, r2) >= minProfitThreshold(id)
    THEN << RawOpp(id, symbol,
                   IF r1 > r2 THEN e1 ELSE e2,
                   IF r1 > r2 THEN e2 ELSE e1,
                   Min(r1, r2), Max(r1, r2),
                   calculateExpectedProfit(id, r1, r2), "") >>
    ELSE <<>>

\* Body of the innermost loop of collectSameSignDifferentRateOpportunities.
sameSignFor(id, e1, e2, symbol, r1, r2) ==
    IF isSameSign(r1, r2)
       /\ calculateExpectedProfit(id, r1, r2) >= minProfitThreshold(id)
    THEN << RawOpp(id, symbol,
                   IF r1 < r2 THEN e1 ELSE e2,
                   IF r1 < r2 THEN e2 ELSE e1,
                   Min(r1, r2), Max(r1, r2),
                   calculateExpectedProfit(id, r1, r2), "") >>
    ELSE <<>>

\* Body of the innermost loop of collectHighSameDirectionOpportunities.
highSameDirectionFor(id, e1, e2, symbol, r1, r2) ==
    IF Min(Abs(r1), Abs(r2)) >= minProfitThreshold(id) /\ isSameSign(r1, r2)
    THEN << RawOpp(id, symbol, e1, e2, r1, r2,
                   calculateExpectedProfit(id, r1, r2),
                   IF r1 < 0 /\ r2 < 0 THEN "LONG_BOTH" ELSE "SHORT_BOTH") >>
    ELSE <<>>

\* collectScenarioOpportunities: what one scenario appends to
\* rawOpportunities.  Scenarios 3 and 4 are empty stubs.
collectScenarioOpportunities(id, fundingRates) ==
    IF id \in {3, 4} THEN <<>>
    ELSE Flatten([p \in 1..Len(exchangePairs) |->
        LET e1 == exchangePairs[p][1]
            e2 == exchangePairs[p][2]
            rates1 == ratesOf(fundingRates, e1)
            rates2 == ratesOf(fundingRates, e2)
            common == findCommonSymbols(rates1, rates2)
        IN  Flatten([k \in 1..Len(common) |->
                LET symbol == common[k]
                    r1 == rates1[symbol]
                    r2 == rates2[symbol]
                IN  CASE id = 1 -> oppositeSignFor(id, e1, e2, symbol, r1, r2)
                      [] id = 2 -> sameSignFor(id, e1, e2, symbol, r1, r2)
                      [] id = 5 -> highSameDirectionFor(id, e1, e2, symbol, r1, r2)])])

\* The loop over config.scenarios in scanForOpportunities.
collectAll(fundingRates) ==
    Flatten([n \in 1..Len(scenarioIds) |->
        collectScenarioOpportunities(scenarioIds[n], fundingRates)])

\* The insertion that puts a record before the records of equal profit:
\* a sort that is not stable.
insertDescBeforeEqual(x, sorted) ==
    LET keep == {i \in 1..Len(sorted) : sorted[i].expectedProfit > x.expectedProfit}
        n == Cardinality(keep)
    IN  SubSeq(sorted, 1, n) \o <<x>> \o SubSeq(sorted, n + 1, Len(sorted))

\* Array.prototype.sort((a, b) => b.expectedProfit - a.expectedProfit):
\* descending and stable.
insertDesc(x, sorted) ==
    LET keep == {i \in 1..Len(sorted) : sorted[i].expectedProfit >= x.expectedProfit}
        n == Cardinality(keep)
    IN  SubSeq(sorted, 1, n) \o <<x>> \o SubSeq(sorted, n + 1, Len(sorted))

RECURSIVE sortDesc(_)
sortDesc(s) ==
    IF s = <<>> THEN <<>>
    ELSE insertDesc(s[Len(s)], sortDesc(SubSeq(s, 1, Len(s) - 1)))

\* Keys of groupedBySymbol in insertion order.
RECURSIVE symbolsInOrder(_, _)
symbolsInOrder(opps, seen) ==
    IF opps = <<>> THEN <<>>
    ELSE IF Head(opps).symbol \in seen
         THEN symbolsInOrder(Tail(opps), seen)
         ELSE <<Head(opps).symbol>>
              \o symbolsInOrder(Tail(opps), seen \cup {Head(opps).symbol})

\* The SimpleOpportunity built from the best record of a group.
SimpleOpportunity(best) ==
    [symbol |-> best.symbol, scenarioId |-> best.scenarioId,
     longExchange |-> best.longExchange, shortExchange |-> best.shortExchange,
     longFundingRate |-> best.longFundingRate,
     shortFundingRate |-> best.shortFundingRate,
     expectedProfit |-> best.expectedProfit]

\* OpportunityFilter.filterBestBySymbol
filterBestBySymbol(opportunities) ==
    LET keys == symbolsInOrder(opportunities, {})
        bestOf(symbol) ==
            sortDesc(SelectSeq(opportunities, LAMBDA o : o.symbol = symbol))[1]
    IN  sortDesc([k \in 1..Len(keys) |-> SimpleOpportunity(bestOf(keys[k]))])

\* The slice taken one entry too long.
getTopOpportunitiesOneMore(opportunities, limit) ==
    LET best == filterBestBySymbol(opportunities)
    IN  SubSeq(best, 1, Min(limit + 1, Len(best)))

\* OpportunityFilter.getTopOpportunities
getTopOpportunities(opportunities, limit) ==
    LET best == filterBestBySymbol(opportunities)
    IN  SubSeq(best, 1, Min(limit, Len(best)))

\* The two comparisons joined by && instead of ||: never true.
shouldEmergencyStopBoth(pnl) ==
    Abs(pnl) > MaxDailyLoss /\ pnl < 0 - MaxDailyLoss /\ pnl > 0

\* AutoTradeScheduler.shouldEmergencyStop
shouldEmergencyStop(pnl) ==
    Abs(pnl) > MaxDailyLoss \/ pnl < 0 - MaxDailyLoss

\* new Date().toDateString(): the calendar date of an instant.
toDateString(t) == t \div HoursPerDay

\* The age compared with the holding period taken in milliseconds.
shouldClosePositionMillis(position, t) ==
    t - position.executedAt > CloseAfterHours * 3600000

\* AutoTradeScheduler.shouldClosePosition
shouldClosePosition(position, t) ==
    t - position.executedAt > CloseAfterHours

\* The next settlement an exchange reports at instant t (00:00, 08:00,
\* 16:00 every day).
nextFundingTimeAt(t) == FundingPeriodHours * (t \div FundingPeriodHours + 1)

\* ------------------------------------------------------------------ state

VARIABLES
    enabled,            \* config.enabled
    intervalId,         \* TRUE while the startAutoTrading interval is set
    activePositions,    \* the TradeExecution list
    dailyPnL,
    lastResetDate,
    rawOpportunities,
    now,                \* the wall clock, in hours
    postDue,            \* the '2 0,8,16 * * *' cron job is due at this hour
    cycles,             \* one record per scanForOpportunities invocation
    nextCycle,          \* the number the next invocation gets
    riskAllowed,        \* <<cycle, symbol>> pairs RiskManager.evaluateNewPosition allowed
    callArgs,           \* arguments of a direct call of one of the pure functions
    callResult,         \* what that call returned
    alerts              \* RiskManager.alerts

vars == <<enabled, intervalId, activePositions, dailyPnL, lastResetDate,
          rawOpportunities, now, postDue, cycles, nextCycle, riskAllowed, callArgs, callResult, alerts>>

Cycles == 1..MaxCycles

\* The record of an invocation.  pc is "idle" before it starts, "fetch"
\* while it awaits connector k inside collectFundingRates, "done" once it
\* has returned; outcome tells how it returned; skipped and capped are the
\* symbols of its two "Skipping" log lines, failed the exchanges of its
\* "Failed to collect" log lines.
CycleAt(pc, outcome) ==
    [pc |-> pc, k |-> 0, fundingRates |-> <<>>, outcome |-> outcome,
     skipped |-> {}, capped |-> {}, failed |-> {}]

\* Cycles between their first statement and their return.
InFlight == {c \in Cycles : cycles[c].pc = "fetch"}

\* ---------------------------------------------------------- ledger helpers

\* The reset that zeroes the balance and forgets to store the date.
resetDailyPnLKeepDate(pnl, resetDate, t) ==
    IF toDateString(t) # resetDate
    THEN [dailyPnL |-> 0, lastResetDate |-> resetDate]
    ELSE [dailyPnL |-> pnl, lastResetDate |-> resetDate]

\* AutoTradeScheduler.resetDailyPnLIfNewDay: the ledger after the call.
resetDailyPnLIfNewDay(pnl, resetDate, t) ==
    IF toDateString(t) # resetDate
    THEN [dailyPnL |-> 0, lastResetDate |-> toDateString(t)]
    ELSE [dailyPnL |-> pnl, lastResetDate |-> resetDate]

\* The lookup matching the status 'OPENING', which no position ever has.
existingPositionOpening(positions, symbol) ==
    \E n \in 1..Len(positions) :
        positions[n].symbol = symbol /\ positions[n].status = "OPENING"

\* executeTopOpportunities: the existingPosition lookup.
existingPosition(positions, symbol) ==
    \E n \in 1..Len(positions) :
        positions[n].symbol = symbol /\ positions[n].status = "ACTIVE"

\* The count matching the status 'OPENING', which no position ever has.
scenarioPositionsOpening(positions, scenarioId) ==
    Cardinality({n \in 1..Len(positions) :
        positions[n].scenarioId = scenarioId /\ positions[n].status = "OPENING"})

\* The count compared with > where the code has >=.
scenarioPositionsButOne(positions, scenarioId) ==
    Cardinality({n \in 1..Len(positions) :
        positions[n].scenarioId = scenarioId /\ positions[n].status = "ACTIVE"}) - 1

\* executeTopOpportunities: the scenarioPositions count.
scenarioPositions(positions, scenarioId) ==
    Cardinality({n \in 1..Len(positions) :
        positions[n].scenarioId = scenarioId /\ positions[n].status = "ACTIVE"})

\* The settlement the two legs of an opportunity wait for: the earlier of
\* the nextFundingTime values of its exchanges in the cycle's snapshot.
fundingDeadlineOf(opportunity, fundingRates) ==
    Min(fundingRates[opportunity.longExchange].nextFundingTime,
        fundingRates[opportunity.shortExchange].nextFundingTime)

\* executeOptimizedTrade: the TradeExecution pushed for an opportunity.
\* cycle and fundingDeadline are history fields the code does not keep.
TradeExecution(opportunity, t, c, fundingRates) ==
    [id |-> <<opportunity.scenarioId, opportunity.symbol, t>>,
     scenarioId |-> opportunity.scenarioId,
     symbol |-> opportunity.symbol,
     longExchange |-> opportunity.longExchange,
     shortExchange |-> opportunity.shortExchange,
     longFundingRate |-> opportunity.longFundingRate,
     shortFundingRate |-> opportunity.shortFundingRate,
     expectedProfit |-> opportunity.expectedProfit,
     actualProfit |-> 0,
     status |-> "ACTIVE",
     executedAt |-> t,
     cycle |-> c,
     fundingDeadline |-> fundingDeadlineOf(opportunity, fundingRates)]

\* An entry that takes over the CLOSED or FAILED record of the symbol, when
\* there is one, instead of pushing a new record.
executeOptimizedTradeReopening(positions, opportunity, t, c, fundingRates, threw) ==
    IF \E n \in 1..Len(positions) : positions[n].symbol = opportunity.symbol
    THEN [n \in 1..Len(positions) |->
            IF positions[n].symbol = opportunity.symbol
            THEN TradeExecution(opportunity, t, c, fundingRates)
            ELSE positions[n]]
    ELSE Append(positions, TradeExecution(opportunity, t, c, fundingRates))

\* AutoTradeScheduler.executeOptimizedTrade: the TradeExecution is pushed,
\* then broadcastProfitUpdate is called; threw tells whether that call, the
\* only one of the try block that can raise an error, did: the catch block
\* logs the error.
executeOptimizedTrade(positions, opportunity, t, c, fundingRates, threw) ==
    Append(positions, TradeExecution(opportunity, t, c, fundingRates))

\* The gateway's emit is taken to succeed in
\* executeTopOpportunities with its calls of executeOptimizedTrade, from
\* the state acc = [positions, skipped, capped] over the opportunities
\* still to visit.
RECURSIVE executeTopOpportunities(_, _, _, _, _)
executeTopOpportunities(acc, bestOpportunities, t, c, fundingRates) ==
    IF bestOpportunities = <<>> THEN acc
    ELSE LET opportunity == Head(bestOpportunities)
             after ==
                IF existingPosition(acc.positions, opportunity.symbol)
                THEN [acc EXCEPT !.skipped = @ \cup {opportunity.symbol}]
                ELSE IF scenarioPositions(acc.positions, opportunity.scenarioId)
                        >= MaxPositionsPerScenario
                     THEN [acc EXCEPT !.capped = @ \cup {opportunity.symbol}]
                     ELSE [acc EXCEPT !.positions =
                            executeOptimizedTrade(@, opportunity, t, c,
                                                  fundingRates, FALSE)]
         IN  executeTopOpportunities(after, Tail(bestOpportunities), t, c, fundingRates)

\* A catch block that logs the failure and leaves the status as the try
\* block left it.
closePositionLogOnly(position, threw) == [position EXCEPT !.status = "CLOSED"]

\* AutoTradeScheduler.closePosition; threw tells whether its try block
\* raised an error.
closePosition(position, threw) ==
    [position EXCEPT !.status = IF threw THEN "FAILED" ELSE "CLOSED"]

\* The loop of manageActivePositions and closeExpiredPositions at instant
\* t: closePosition is called for every ACTIVE position older than the
\* holding period; throwing holds the indices whose call raises an error.
closeDuePositions(positions, t, throwing) ==
    [n \in 1..Len(positions) |->
        IF positions[n].status = "ACTIVE" /\ shouldClosePosition(positions[n], t)
        THEN closePosition(positions[n], n \in throwing)
        ELSE positions[n]]

\* The positions of before that are CLOSED in after and were not before.
closedBetween(before, after) ==
    {n \in 1..Len(before) :
        before[n].status # "CLOSED" /\ after[n].status = "CLOSED"}

\* A closePosition that books one unit of realized PnL per close.
dailyPnLBookingCloses(pnl, before, after) ==
    pnl + Cardinality(closedBetween(before, after))

\* dailyPnL after the closePosition calls that took the list from before
\* to after: the realized PnL update is commented out.
dailyPnLAfterCloses(pnl, before, after) == pnl

\* manageActivePositions and closeExpiredPositions as the scheduler runs
\* them: the order closure is a TODO, so the try block of closePosition
\* makes no call that can raise an error.
manageActivePositions(positions, t) == closeDuePositions(positions, t, {})

\* ------------------------------------------------------------------- Init

InitBase ==
    /\ enabled = TRUE
    /\ intervalId = FALSE
    /\ lastResetDate = toDateString(StartHour)
    /\ rawOpportunities = <<>>
    /\ now = StartHour
    /\ postDue = FALSE
    /\ cycles = [c \in Cycles |-> CycleAt("idle", "")]
    /\ nextCycle = 1
    /\ riskAllowed = {}
    /\ alerts = <<>>

\* No direct call of a pure function is pending.
NoCall == callArgs = <<>> /\ callResult = <<>>

Init == InitBase /\ NoCall /\ activePositions = <<>> /\ dailyPnL = 0

\* ---------------------------------------------------------------- actions

\* The prefix with the day-rollover reset moved before the test of
\* config.enabled.
ScanBeginResetFirst(en) ==
    LET ledger == resetDailyPnLIfNewDay(dailyPnL, lastResetDate, now)
    IN  /\ dailyPnL' = ledger.dailyPnL
        /\ lastResetDate' = ledger.lastResetDate
        /\ IF ~en
           THEN UNCHANGED <<cycles, nextCycle>>
           ELSE /\ nextCycle' = nextCycle + 1
                /\ cycles' = [cycles EXCEPT ![nextCycle] =
                       IF shouldEmergencyStop(ledger.dailyPnL)
                       THEN CycleAt("done", "emergencyStop")
                       ELSE [CycleAt("fetch", "") EXCEPT !.k = 1]]

\* The synchronous prefix of scanForOpportunities, up to the call of
\* collectFundingRates, run with config.enabled = en.
ScanBegin(en) ==
    IF ~en
    THEN UNCHANGED <<dailyPnL, lastResetDate, cycles, nextCycle>>
    ELSE LET ledger == resetDailyPnLIfNewDay(dailyPnL, lastResetDate, now)
         IN  /\ dailyPnL' = ledger.dailyPnL
             /\ lastResetDate' = ledger.lastResetDate
             /\ nextCycle' = nextCycle + 1
             /\ cycles' = [cycles EXCEPT ![nextCycle] =
                    IF shouldEmergencyStop(ledger.dailyPnL)
                    THEN CycleAt("done", "emergencyStop")
                    ELSE [CycleAt("fetch", "") EXCEPT !.k = 1]]

\* @Cron(EVERY_30_SECONDS) scanForOpportunities
CronScan ==
    /\ nextCycle <= MaxCycles
    /\ ScanBegin(enabled)
    /\ UNCHANGED <<enabled, intervalId, activePositions, rawOpportunities,
                   now, postDue, riskAllowed, callArgs, callResult, alerts>>

\* The setInterval callback of startAutoTrading
IntervalScan ==
    /\ intervalId
    /\ nextCycle <= MaxCycles
    /\ ScanBegin(enabled)
    /\ UNCHANGED <<enabled, intervalId, activePositions, rawOpportunities,
                   now, postDue, riskAllowed, callArgs, callResult, alerts>>

\* AutoTradeController.forceScan
ForceScan ==
    /\ nextCycle <= MaxCycles
    /\ ScanBegin(enabled)
    /\ UNCHANGED <<enabled, intervalId, activePositions, rawOpportunities,
                   now, postDue, riskAllowed, callArgs, callResult, alerts>>

\* AutoTradeScheduler.startAutoTrading
StartAutoTrading ==
    /\ nextCycle <= MaxCycles
    /\ enabled' = TRUE
    /\ intervalId' = TRUE
    /\ ScanBegin(TRUE)
    /\ UNCHANGED <<activePositions, rawOpportunities, now, postDue, riskAllowed, callArgs, callResult, alerts>>

\* AutoTradeScheduler.stopAutoTrading
StopAutoTrading ==
    /\ intervalId
    /\ intervalId' = FALSE
    /\ enabled' = FALSE
    /\ UNCHANGED <<activePositions, dailyPnL, lastResetDate, rawOpportunities,
                   now, postDue, cycles, nextCycle, riskAllowed, callArgs, callResult, alerts>>

\* AutoTradeScheduler.enable / enableAutoTrade
Enable ==
    /\ enabled' = TRUE
    /\ UNCHANGED <<intervalId, activePositions, dailyPnL, lastResetDate,
                   rawOpportunities, now, postDue, cycles, nextCycle, riskAllowed, callArgs, callResult, alerts>>

\* AutoTradeScheduler.disable / disableAutoTrade
Disable ==
    /\ enabled' = FALSE
    /\ UNCHANGED <<intervalId, activePositions, dailyPnL, lastResetDate,
                   rawOpportunities, now, postDue, cycles, nextCycle, riskAllowed, callArgs, callResult, alerts>>

\* One try block around the three calls: a failure loses the lists
\* collected before it.
withConnectorResultOrNothing(fundingRates, exchange, result, t) ==
    IF ~result.ok
    THEN <<>>
    ELSE (exchange :> [quotes |-> result.quotes,
                       nextFundingTime |-> nextFundingTimeAt(t)])
         @@ fundingRates

\* A catch block that stops auto trading.
afterCollectErrorStop(flags) == [enabled |-> FALSE, intervalId |-> FALSE]

\* The catch blocks of collectFundingRates: the error is logged and the
\* flags [enabled, intervalId] of the scheduler stay as they are.
afterCollectError(flags) == flags

\* The flags after a connector call that returned result.
flagsAfter(result) ==
    IF result.ok
    THEN [enabled |-> enabled, intervalId |-> intervalId]
    ELSE afterCollectError([enabled |-> enabled, intervalId |-> intervalId])

\* The map collectFundingRates holds after the connector of exchange
\* answered with result at instant t.
withConnectorResult(fundingRates, exchange, result, t) ==
    IF ~result.ok
    THEN fundingRates
    ELSE (exchange :> [quotes |-> result.quotes,
                       nextFundingTime |-> nextFundingTimeAt(t)])
         @@ fundingRates

\* FundingRateService.collectFundingRates: the Binance or the Bybit
\* connector returns a list or throws, and the next connector is called.
GetFundingRates(c) ==
    /\ cycles[c].pc = "fetch"
    /\ cycles[c].k < Len(exchanges)
    /\ \E result \in ConnectorResults(exchanges[cycles[c].k]) :
        /\ cycles' = [cycles EXCEPT
                ![c].fundingRates =
                    withConnectorResult(@, exchanges[cycles[c].k], result, now),
                ![c].failed =
                    IF result.ok THEN @ ELSE @ \cup {exchanges[cycles[c].k]},
                ![c].k = @ + 1]
        /\ enabled' = flagsAfter(result).enabled
        /\ intervalId' = flagsAfter(result).intervalId
    /\ UNCHANGED <<activePositions, dailyPnL, lastResetDate,
                   rawOpportunities, now, postDue, nextCycle, riskAllowed, callArgs, callResult, alerts>>

\* The scenario loop without the reset: the candidates are pushed after
\* those the list already holds.
collectOntoEarlier(earlier, fundingRates) == earlier \o collectAll(fundingRates)

\* scanForOpportunities: rawOpportunities, holding the candidates earlier,
\* is set to [] and the scenario loop pushes the candidates of the
\* invocation's own fundingRates.
collectRawOpportunities(earlier, fundingRates) == collectAll(fundingRates)

\* The last connector returns, collectFundingRates returns the map and
\* scanForOpportunities runs to its end: rawOpportunities is reset and
\* collected, ranked, the top opportunities are executed and the open
\* positions managed.
CompleteScan(c) ==
    /\ cycles[c].pc = "fetch"
    /\ cycles[c].k = Len(exchanges)
    /\ \E result \in ConnectorResults(exchanges[cycles[c].k]) :
        LET fundingRates ==
                withConnectorResult(cycles[c].fundingRates,
                                    exchanges[cycles[c].k], result, now)
            raw == collectRawOpportunities(rawOpportunities, fundingRates)
            bestOpportunities == getTopOpportunities(raw, TopLimit)
            executed ==
                executeTopOpportunities(
                    [positions |-> activePositions, skipped |-> {}, capped |-> {}],
                    bestOpportunities, now, c, fundingRates)
        IN  /\ rawOpportunities' = raw
            /\ activePositions' = manageActivePositions(executed.positions, now)
            /\ dailyPnL' = dailyPnLAfterCloses(dailyPnL, executed.positions,
                                               activePositions')
            /\ cycles' = [cycles EXCEPT ![c] =
                    [CycleAt("done", "completed") EXCEPT
                        !.skipped = executed.skipped,
                        !.capped = executed.capped,
                        !.failed =
                            IF result.ok THEN cycles[c].failed
                            ELSE cycles[c].failed \cup {exchanges[cycles[c].k]}]]
            /\ enabled' = flagsAfter(result).enabled
            /\ intervalId' = flagsAfter(result).intervalId
    /\ UNCHANGED <<lastResetDate,
                   now, postDue, nextCycle, riskAllowed, callArgs, callResult, alerts>>

\* @Cron('58 0,8,16 * * *') preFundingCheck with
\* checkTimeSensitiveScenarios: it returns when disabled and writes a log
\* line when enabled.
PreFundingCheck == UNCHANGED vars

\* @Cron('2 0,8,16 * * *') postFundingCheck with closeExpiredPositions
PostFundingCheck ==
    /\ postDue
    /\ postDue' = FALSE
    /\ activePositions' = IF enabled
                          THEN manageActivePositions(activePositions, now)
                          ELSE activePositions
    /\ dailyPnL' = dailyPnLAfterCloses(dailyPnL, activePositions, activePositions')
    /\ UNCHANGED <<enabled, intervalId, lastResetDate, rawOpportunities,
                   now, cycles, nextCycle, riskAllowed, callArgs, callResult, alerts>>

\* The clock advances by one step.  A due cron job fires before it does.
Tick ==
    /\ ~postDue
    /\ now + ClockStep <= MaxTime
    /\ now' = now + ClockStep
    /\ postDue' = (now' % FundingPeriodHours = 0)
    /\ UNCHANGED <<enabled, intervalId, activePositions, dailyPnL, lastResetDate,
                   rawOpportunities, cycles, nextCycle, riskAllowed, callArgs, callResult, alerts>>

Next ==
    \/ CronScan
    \/ IntervalScan
    \/ ForceScan
    \/ StartAutoTrading
    \/ StopAutoTrading
    \/ Enable
    \/ Disable
    \/ \E c \in Cycles : GetFundingRates(c)
    \/ \E c \in Cycles : CompleteScan(c)
    \/ PreFundingCheck
    \/ PostFundingCheck
    \/ Tick

Spec == Init /\ [][Next]_vars

\* No statement of the program writes dailyPnL except the daily reset, so
\* a balance other than 0 can only be supplied from outside: here the
\* balance the process starts the day with is an input.
InitLedger == InitBase /\ NoCall /\ activePositions = <<>> /\ dailyPnL \in PnLValues

SpecLedger == InitLedger /\ [][Next]_vars

\* A task opened before the balance went beyond the limit: the best
\* opportunity of a snapshot in which every connector answered, executed
\* at the start hour by an invocation that has returned.
EarlierSnapshot ==
    [e \in Exchanges |->
        [quotes |-> (CHOOSE r \in ConnectorResults(e) :
                        r.ok /\ \A q \in ConnectorResults(e) :
                            q.ok => r.quotes[symbolOrder[1]] <= q.quotes[symbolOrder[1]]).quotes,
         nextFundingTime |-> nextFundingTimeAt(StartHour)]]

EarlierTask ==
    TradeExecution(getTopOpportunities(collectAll(EarlierSnapshot), TopLimit)[1],
                   StartHour, 0, EarlierSnapshot)

InitInFlight ==
    /\ InitBase
    /\ NoCall
    /\ activePositions = <<EarlierTask>>
    /\ dailyPnL \in PnLValues \ {0}

\* The cron jobs keep firing and the clock keeps running.
SpecInFlight ==
    /\ InitInFlight
    /\ [][Next]_vars
    /\ WF_vars(Tick)
    /\ WF_vars(PostFundingCheck)

\* ------------------------------------------------- direct calls

\* The fields of the scheduler, which a direct call of a pure function
\* leaves alone.
scheduler == <<enabled, intervalId, activePositions, dailyPnL, lastResetDate,
               rawOpportunities, now, postDue, cycles, nextCycle, riskAllowed>>

\* The scheduler as constructed.
InitScheduler == InitBase /\ activePositions = <<>> /\ dailyPnL = 0

\* Longest list and largest limit handed to the ranker.
MaxListLen == 3
MaxLimit == 3

\* Candidates the ranker is called with: two symbols, two rules, three
\* profits, so that lists hold several candidates of a symbol and ties.
RankerCandidates ==
    {RawOpp(id, symbol, "Binance", "OKX", 0 - 40, 70, profit, "") :
        id \in {1, 2}, symbol \in {symbolOrder[1], symbolOrder[2]},
        profit \in {0, 20, 50}}

RankerLists == UNION {[1..n -> RankerCandidates] : n \in 0..MaxListLen}

InitRanker ==
    /\ InitScheduler
    /\ callArgs \in [opportunities : RankerLists, limit : 0..MaxLimit]
    /\ callResult = <<>>

\* OpportunityFilter.getTopOpportunities(opportunities, limit) is called
\* and returns.
CallGetTopOpportunities ==
    /\ callResult = <<>>
    /\ callResult' = <<getTopOpportunities(callArgs.opportunities, callArgs.limit)>>
    /\ UNCHANGED <<scheduler, alerts, callArgs>>

SpecRanker == InitRanker /\ [][CallGetTopOpportunities]_vars

\* Rates the profit calculator is called with (-0.007 .. 0.007).
ProfitRates == {0 - 70, 0 - 40, 0 - 3, 0, 3, 30, 40, 70}

\* Scenario ids it is called with: the five rules and one unknown id.
ProfitScenarioIds == {1, 2, 3, 4, 5, 6}

InitProfit ==
    /\ InitScheduler
    /\ callArgs \in [scenarioId : ProfitScenarioIds,
                      rate1 : ProfitRates, rate2 : ProfitRates]
    /\ callResult = <<>>

\* ProfitCalculator.calculateExpectedProfit(scenarioId, rate1, rate2) is
\* called and returns.
CallCalculateExpectedProfit ==
    /\ callResult = <<>>
    /\ callResult' = <<calculateExpectedProfit(callArgs.scenarioId,
                                               callArgs.rate1, callArgs.rate2)>>
    /\ UNCHANGED <<scheduler, alerts, callArgs>>

SpecProfit == InitProfit /\ [][CallCalculateExpectedProfit]_vars

\* Snapshots the classifier is called with: every exchange is missing,
\* or quotes the first symbol only, or every symbol, at one rate.
ClassifierRates == {0 - 70, 0 - 40, 0, 30, 70}

ClassifierLists ==
    {[s \in Symbols |-> IF s \in listed THEN r ELSE NoQuote] :
        r \in ClassifierRates, listed \in {{symbolOrder[1]}, Symbols}}

ClassifierSnapshots ==
    UNION {[answered ->
                [quotes : ClassifierLists,
                 nextFundingTime : {nextFundingTimeAt(StartHour)}]] :
            answered \in SUBSET Exchanges}

InitClassifier ==
    /\ InitScheduler
    /\ callArgs \in ClassifierSnapshots
    /\ callResult = <<>>

\* The scenario loop of scanForOpportunities is run on a snapshot.
CallCollect ==
    /\ callResult = <<>>
    /\ callResult' = <<collectAll(callArgs)>>
    /\ UNCHANGED <<scheduler, alerts, callArgs>>

SpecClassifier == InitClassifier /\ [][CallCollect]_vars

\* RiskManager.riskParameters; ratios are in percent.
MaxPositionSize == 100000
RiskMaxDailyLoss == 5000
MaxOpenPositions == 20
MaxPortfolioRiskPct == 5
CorrelationLimitPct == 70
SameSymbolCorrelationPct == 80

\* RiskManager.calculateSymbolCorrelation, in percent.
calculateSymbolCorrelation(symbol, positions) ==
    IF \E i \in 1..Len(positions) : positions[i].symbol = symbol
    THEN SameSymbolCorrelationPct
    ELSE 0

\* positionSize / portfolioValue > maxPortfolioRisk in floating point, for
\* a size that is not negative: the quotient is Infinity for a positive
\* size over 0 and NaN, which compares false, for 0 over 0.
portfolioRiskExceeded(positionSize, portfolioValue) ==
    IF portfolioValue > 0
    THEN positionSize * 100 > MaxPortfolioRiskPct * portfolioValue
    ELSE portfolioValue = 0 /\ positionSize > 0

\* The gate that returns at the first failing check.
evaluateNewPositionFirstOnly(symbol, positionSize, currentPositions, portfolioValue) ==
    IF positionSize > MaxPositionSize
    THEN [canOpen |-> FALSE, reasons |-> <<"Position size exceeds maximum">>]
    ELSE IF Len(currentPositions) >= MaxOpenPositions
    THEN [canOpen |-> FALSE, reasons |-> <<"Maximum number of positions reached">>]
    ELSE IF portfolioRiskExceeded(positionSize, portfolioValue)
    THEN [canOpen |-> FALSE, reasons |-> <<"Position would exceed max portfolio risk">>]
    ELSE IF calculateSymbolCorrelation(symbol, currentPositions) > CorrelationLimitPct
    THEN [canOpen |-> FALSE, reasons |-> <<"High correlation with existing positions">>]
    ELSE [canOpen |-> TRUE, reasons |-> <<"Position meets all risk criteria">>]

\* The gate with the size compared by >= .
evaluateNewPositionAtLeast(symbol, positionSize, currentPositions, portfolioValue) ==
    LET failed ==
            (IF positionSize >= MaxPositionSize
             THEN <<"Position size exceeds maximum">> ELSE <<>>)
            \o (IF Len(currentPositions) >= MaxOpenPositions
                THEN <<"Maximum number of positions reached">> ELSE <<>>)
            \o (IF portfolioRiskExceeded(positionSize, portfolioValue)
                THEN <<"Position would exceed max portfolio risk">> ELSE <<>>)
            \o (IF calculateSymbolCorrelation(symbol, currentPositions)
                        > CorrelationLimitPct
                THEN <<"High correlation with existing positions">> ELSE <<>>)
    IN  IF failed = <<>>
        THEN [canOpen |-> TRUE, reasons |-> <<"Position meets all risk criteria">>]
        ELSE [canOpen |-> FALSE, reasons |-> failed]

\* RiskManager.evaluateNewPosition (the exchange argument is not read).
evaluateNewPosition(symbol, positionSize, currentPositions, portfolioValue) ==
    LET failed ==
            (IF positionSize > MaxPositionSize
             THEN <<"Position size exceeds maximum">> ELSE <<>>)
            \o (IF Len(currentPositions) >= MaxOpenPositions
                THEN <<"Maximum number of positions reached">> ELSE <<>>)
            \o (IF portfolioRiskExceeded(positionSize, portfolioValue)
                THEN <<"Position would exceed max portfolio risk">> ELSE <<>>)
            \o (IF calculateSymbolCorrelation(symbol, currentPositions)
                        > CorrelationLimitPct
                THEN <<"High correlation with existing positions">> ELSE <<>>)
    IN  IF failed = <<>>
        THEN [canOpen |-> TRUE, reasons |-> <<"Position meets all risk criteria">>]
        ELSE [canOpen |-> FALSE, reasons |-> failed]

\* Arguments the gate is called with: sizes at and around maxPositionSize,
\* portfolios that put them at 1%, 5% and 10% and an empty portfolio,
\* position lists at and around maxOpenPositions with or without a
\* position on the candidate's symbol.
GateSizes == {1, MaxPositionSize - 1, MaxPositionSize, MaxPositionSize + 1}
GatePortfolios == {0, 10 * MaxPositionSize, 20 * MaxPositionSize, 100 * MaxPositionSize}
GateSymbol == symbolOrder[1]
GatePositions ==
    {[i \in 1..n |-> [symbol |-> IF same /\ i = 1 THEN GateSymbol ELSE symbolOrder[2]]] :
        n \in {0, 1, MaxOpenPositions - 1, MaxOpenPositions}, same \in BOOLEAN}

InitRiskGate ==
    /\ InitScheduler
    /\ callArgs \in [symbol : {GateSymbol}, positionSize : GateSizes,
                      currentPositions : GatePositions,
                      portfolioValue : GatePortfolios]
    /\ callResult = <<>>

\* RiskManager.evaluateNewPosition is called and returns.
CallEvaluateNewPosition ==
    /\ callResult = <<>>
    /\ callResult' = <<evaluateNewPosition(callArgs.symbol, callArgs.positionSize,
                                           callArgs.currentPositions,
                                           callArgs.portfolioValue)>>
    /\ UNCHANGED <<scheduler, alerts, callArgs>>

SpecRiskGate == InitRiskGate /\ [][CallEvaluateNewPosition]_vars

\* riskParameters.maxLeverage, and the share of a limit at which
\* monitorRisks raises its alert, in tenths.
MaxLeverage == 10
AlertShareTenths == 8

\* RiskManager.monitorRisks called at instant t with no position: the list
\* after the push of the leverage and the daily loss alert.
monitorRisks(stored, riskMetrics, t) ==
    LET leverage ==
            IF 10 * riskMetrics.currentLeverage > MaxLeverage * AlertShareTenths
            THEN << [id |-> <<"LEVERAGE", t>>, type |-> "LEVERAGE",
                     severity |-> IF riskMetrics.currentLeverage > MaxLeverage
                                  THEN "CRITICAL" ELSE "HIGH",
                     timestamp |-> t, acknowledged |-> FALSE] >>
            ELSE <<>>
        drawdown ==
            IF 10 * riskMetrics.dailyPnl < 0 - RiskMaxDailyLoss * AlertShareTenths
            THEN << [id |-> <<"DRAWDOWN", t>>, type |-> "DRAWDOWN",
                     severity |-> IF riskMetrics.dailyPnl < 0 - RiskMaxDailyLoss
                                  THEN "CRITICAL" ELSE "HIGH",
                     timestamp |-> t, acknowledged |-> FALSE] >>
            ELSE <<>>
    IN  stored \o leverage \o drawdown

\* RiskManager.acknowledgeAlert: the first alert with the id is marked.
acknowledgeAlert(stored, alertId) ==
    IF \E n \in 1..Len(stored) : stored[n].id = alertId
    THEN LET first == CHOOSE n \in 1..Len(stored) :
                        /\ stored[n].id = alertId
                        /\ \A m \in 1..(n - 1) : stored[m].id # alertId
         IN  [stored EXCEPT ![first].acknowledged = TRUE]
    ELSE stored

\* RiskManager.getActiveAlerts
getActiveAlerts(stored) == SelectSeq(stored, LAMBDA alert : ~alert.acknowledged)

\* The number of acknowledged alerts the documentation says are kept, and
\* the longest list drawn.
MaxAcknowledgedAlerts == 100
MaxAlerts == 102

\* Metrics monitorRisks is called with: calm, and leverage above the
\* alert share of the limit.
AlertMetrics ==
    {[currentLeverage |-> 0, dailyPnl |-> 0], [currentLeverage |-> 9, dailyPnl |-> 0]}

\* Ids acknowledgeAlert is called with: the oldest alert not yet
\* acknowledged, and an id no alert has.
AlertIds ==
    {<<"LEVERAGE", 0>>} \cup
    (IF getActiveAlerts(alerts) = <<>> THEN {}
     ELSE {getActiveAlerts(alerts)[1].id})

\* RiskManager.monitorRisks is called.
MonitorRisks ==
    /\ Len(alerts) < MaxAlerts
    /\ \E riskMetrics \in AlertMetrics :
          alerts' = monitorRisks(alerts, riskMetrics, Len(alerts) + 1)
    /\ UNCHANGED <<scheduler, callArgs, callResult>>

\* RiskManager.acknowledgeAlert is called.
AcknowledgeAlert ==
    /\ \E alertId \in AlertIds : alerts' = acknowledgeAlert(alerts, alertId)
    /\ UNCHANGED <<scheduler, callArgs, callResult>>

\* The risk manager as constructed: no alert yet.
InitAlerts ==
    /\ InitBase
    /\ NoCall
    /\ activePositions = <<>>
    /\ dailyPnL = 0

SpecAlerts == InitAlerts /\ [][MonitorRisks \/ AcknowledgeAlert]_vars

\* Successive calls of manageActivePositions, one per cycle, on a list of
\* ACTIVE positions of different ages, with any of the closePosition calls
\* raising an error.
MaxCloseCalls == 2

UnwindAges == {0, CloseAfterHours, CloseAfterHours + ClockStep}

UnwindPositions ==
    {[n \in 1..len |->
        [EarlierTask EXCEPT !.symbol = symbolOrder[n],
                            !.executedAt = StartHour - ages[n]]] :
        len \in 1..2, ages \in [1..2 -> UnwindAges]}

InitUnwind ==
    /\ InitScheduler
    /\ callArgs \in [positions : UnwindPositions]
    /\ callResult = <<>>

\* The list the next call finds.
UnwindList ==
    IF callResult = <<>> THEN callArgs.positions
    ELSE callResult[Len(callResult)].positions

\* The instant of the next call: one clock step after the one before.
UnwindClock == StartHour + ClockStep * Len(callResult)

\* manageActivePositions runs in one more cycle.
CallManageActivePositions ==
    /\ Len(callResult) < MaxCloseCalls
    /\ \E throwing \in SUBSET (1..Len(UnwindList)) :
          callResult' = Append(callResult,
              [before |-> UnwindList,
               t |-> UnwindClock,
               throwing |-> throwing,
               positions |-> closeDuePositions(UnwindList, UnwindClock, throwing)])
    /\ UNCHANGED <<scheduler, alerts, callArgs>>

SpecUnwind == InitUnwind /\ [][CallManageActivePositions]_vars

\* Ranked opportunities executeOptimizedTrade is called with.
EntryOpportunities == {getTopOpportunities(<<o>>, 1)[1] : o \in RankerCandidates}

InitEntry ==
    /\ InitScheduler
    /\ callArgs \in [positions : {<<>>, <<EarlierTask>>},
                      opportunity : EntryOpportunities,
                      t : {StartHour, StartHour + ClockStep},
                      threw : BOOLEAN]
    /\ callResult = <<>>

\* executeOptimizedTrade is called and returns.
CallExecuteOptimizedTrade ==
    /\ callResult = <<>>
    /\ callResult' = <<executeOptimizedTrade(callArgs.positions, callArgs.opportunity,
                                             callArgs.t, 1, EarlierSnapshot,
                                             callArgs.threw)>>
    /\ UNCHANGED <<scheduler, alerts, callArgs>>

SpecEntry == InitEntry /\ [][CallExecuteOptimizedTrade]_vars

\* ------------------------------------------------------------- properties

\* C1: shouldEmergencyStop() is true exactly when dailyPnL is below
\* -maxDailyLoss; a profit, however large, never triggers the stop.
\* Stated on the scan that consults it: an invocation that starts is
\* ended by the emergency stop exactly when the balance is a loss beyond
\* the limit.
C1_StopExactlyOnLoss ==
    [][\A c \in Cycles :
        (cycles[c].pc = "idle" /\ cycles'[c].pc # "idle")
        => ((cycles'[c].outcome = "emergencyStop")
            <=> (dailyPnL' < 0 - MaxDailyLoss))]_vars

\* Positions of a symbol that are in no terminal state.
NonTerminal(symbol) ==
    {n \in 1..Len(activePositions) :
        /\ activePositions[n].symbol = symbol
        /\ activePositions[n].status \notin {"CLOSED", "FAILED"}}

\* A step keeps every position record, changing at most its status to
\* CLOSED, and only appends.
PositionsKept ==
    /\ Len(activePositions') >= Len(activePositions)
    /\ \A n \in 1..Len(activePositions) :
        \/ activePositions'[n] = activePositions[n]
        \/ activePositions'[n] = [activePositions[n] EXCEPT !.status = "CLOSED"]

\* C2: a symbol has at most one task that is not in a terminal state; an
\* opportunity for a symbol that has one is rejected, and no step replaces
\* or drops an existing task.
C2_OneTaskPerSymbol ==
    /\ [](\A symbol \in Symbols : Cardinality(NonTerminal(symbol)) <= 1)
    /\ [][PositionsKept]_vars

\* A scan has rejected an opportunity for a symbol whose task is still open.
C2_Witness ==
    \E c \in Cycles : \E symbol \in cycles[c].skipped :
        /\ cycles[c].pc = "done"
        /\ Cardinality(NonTerminal(symbol)) = 1

\* C3: no opportunity is added to activePositions unless the Risk Gate
\* (RiskManager.evaluateNewPosition) allowed it earlier in the same cycle.
C3_RiskGateBeforeExecution ==
    \A n \in 1..Len(activePositions) :
        <<activePositions[n].cycle, activePositions[n].symbol>> \in riskAllowed

\* The tasks an invocation has started.
StartedBy(c) == {n \in 1..Len(activePositions) : activePositions[n].cycle = c}

C5_NoLateExecution ==
    \A n \in 1..Len(activePositions) :
        activePositions[n].fundingDeadline > activePositions[n].executedAt

\* The admission window of the timed execution, at the resolution of the
\* clock: the deadline is no further than one clock step away.
AdmissionWindow == ClockStep

\* C6: an opportunity is executed only if its funding deadline is within
\* the admission window.
C6_EntryWithinWindow ==
    \A n \in 1..Len(activePositions) :
        activePositions[n].fundingDeadline - activePositions[n].executedAt
            <= AdmissionWindow

\* An invocation of scanForOpportunities gets past its enabled check in
\* this step.
Starts(c) == cycles[c].pc = "idle" /\ cycles'[c].pc # "idle"

\* C7: the stop is consulted at the top of every cycle, on the balance
\* left by the day-rollover reset; when the balance is beyond the limit
\* the invocation returns at once: it awaits no connector, collects no
\* candidate and starts no task, and it stays returned.
C7_StopSkipsCycle ==
    [][\A c \in Cycles :
        /\ (Starts(c) /\ Abs(dailyPnL') > MaxDailyLoss)
            => /\ cycles'[c] = CycleAt("done", "emergencyStop")
               /\ UNCHANGED <<rawOpportunities, activePositions>>
        /\ (Starts(c) /\ Abs(dailyPnL') <= MaxDailyLoss)
            => cycles'[c].pc = "fetch"
        /\ cycles[c].pc = "done" => cycles'[c] = cycles[c]]_vars

\* An invocation has returned on the emergency stop.
C7_Witness ==
    \E c \in Cycles :
        /\ cycles[c].pc = "done"
        /\ cycles[c].outcome = "emergencyStop"
        /\ rawOpportunities = <<>>
        /\ activePositions = <<>>

\* The task that was open when the balance went beyond the limit.
InFlightTask == activePositions[1]
StopIsOn == Abs(dailyPnL) > MaxDailyLoss

C9_OneCycleInFlight == Cardinality(InFlight) <= 1

\* C10: the first invocation that starts on a date other than
\* lastResetDate zeroes dailyPnL and stores the date; every other step
\* leaves both as they are.
C10_ResetOncePerDay ==
    [][IF \E c \in Cycles : Starts(c)
       THEN IF now \div HoursPerDay # lastResetDate
            THEN dailyPnL' = 0 /\ lastResetDate' = now \div HoursPerDay
            ELSE UNCHANGED <<dailyPnL, lastResetDate>>
       ELSE UNCHANGED <<dailyPnL, lastResetDate>>]_vars

\* A balance beyond the limit has stopped one invocation and has been
\* zeroed by the first invocation of the next day.
C10_Witness ==
    /\ dailyPnL = 0
    /\ lastResetDate = now \div HoursPerDay
    /\ lastResetDate # StartHour \div HoursPerDay
    /\ \E c \in Cycles : cycles[c].outcome = "emergencyStop"
    /\ nextCycle > MaxCycles

\* C11: the ranker returns no two entries of one symbol, at most limit
\* entries, in descending order of expectedProfit, and the empty list
\* for the empty list.
C11_RankerOutput ==
    callResult # <<>> =>
        LET out == callResult[1]
        IN  /\ \A i, j \in 1..Len(out) : i # j => out[i].symbol # out[j].symbol
            /\ Len(out) <= callArgs.limit
            /\ \A i, j \in 1..Len(out) :
                    i < j => out[i].expectedProfit >= out[j].expectedProfit
            /\ callArgs.opportunities = <<>> => out = <<>>

\* The ranker has cut a list with two candidates of one symbol and more
\* symbols than the limit down to the limit.
C11_Witness ==
    /\ callResult # <<>>
    /\ callArgs.limit = 1
    /\ Len(callResult[1]) = 1
    /\ \E i, j \in 1..Len(callArgs.opportunities) :
            /\ i # j
            /\ callArgs.opportunities[i].symbol = callArgs.opportunities[j].symbol
    /\ \E i, j \in 1..Len(callArgs.opportunities) :
            callArgs.opportunities[i].symbol # callArgs.opportunities[j].symbol

\* The candidate of a symbol a list ranks first: the first, in input
\* order, of those with the highest expectedProfit.
FirstBest(opportunities, symbol) ==
    LET of == {i \in 1..Len(opportunities) : opportunities[i].symbol = symbol}
        top == {i \in of : \A j \in of :
                    opportunities[j].expectedProfit <= opportunities[i].expectedProfit}
    IN  opportunities[CHOOSE i \in top : \A j \in top : i <= j]

\* C12: the entry the ranker keeps for a symbol is the candidate of that
\* symbol with the highest expectedProfit, the first encountered on a
\* tie; every symbol of the input has an entry when the limit allows.
C12_KeepsBestOfSymbol ==
    callResult # <<>> =>
        LET out == callResult[1]
            in == callArgs.opportunities
            present == {in[i].symbol : i \in 1..Len(in)}
        IN  /\ \A k \in 1..Len(out) :
                /\ out[k].symbol \in present
                /\ out[k] = SimpleOpportunity(FirstBest(in, out[k].symbol))
            /\ Cardinality(present) <= callArgs.limit
                => present = {out[k].symbol : k \in 1..Len(out)}

\* Two candidates of one symbol from different rules, profits 0.002 and
\* 0.005: only the 0.005 one is kept.
C12_Witness ==
    /\ callResult # <<>>
    /\ Len(callArgs.opportunities) = 2
    /\ callArgs.opportunities[1].symbol = callArgs.opportunities[2].symbol
    /\ callArgs.opportunities[1].scenarioId # callArgs.opportunities[2].scenarioId
    /\ callArgs.opportunities[1].expectedProfit = 20
    /\ callArgs.opportunities[2].expectedProfit = 50
    /\ callResult[1] = <<SimpleOpportunity(callArgs.opportunities[2])>>

\* C13: for rates of opposite sign the rule-1 profit is |r1| + |r2|,
\* whichever of the two rates is passed first.
C13_OppositeSignProfit ==
    (/\ callResult # <<>>
     /\ callArgs.scenarioId = 1
     /\ \/ callArgs.rate1 < 0 /\ 0 < callArgs.rate2
        \/ callArgs.rate2 < 0 /\ 0 < callArgs.rate1)
    => callResult[1] = Abs(callArgs.rate1) + Abs(callArgs.rate2)

\* The positive rate passed first: 0.003 and -0.004 give 0.007.
C13_Witness ==
    /\ callResult = <<70>>
    /\ callArgs.scenarioId = 1
    /\ callArgs.rate1 = 30
    /\ callArgs.rate2 = 0 - 40

\* The rate a snapshot quotes for a symbol on an exchange.
QuoteIn(fundingRates, exchange, symbol) == fundingRates[exchange].quotes[symbol]

\* C14: every rule-1 candidate is long on the exchange quoting the
\* negative rate and short on the one quoting the positive rate.
C14_LongNegativeShortPositive ==
    callResult # <<>> =>
        \A i \in 1..Len(callResult[1]) :
            LET o == callResult[1][i]
            IN  o.scenarioId = 1 =>
                /\ o.longFundingRate < 0
                /\ 0 < o.shortFundingRate
                /\ o.longFundingRate = QuoteIn(callArgs, o.longExchange, o.symbol)
                /\ o.shortFundingRate = QuoteIn(callArgs, o.shortExchange, o.symbol)
                /\ o.expectedProfit = o.shortFundingRate - o.longFundingRate

\* Binance -0.004 and Bybit 0.003 on BTCUSDT: a candidate of 0.007, long
\* Binance, short Bybit, met in both iteration orders, and the only
\* BTCUSDT entry the ranker returns.
C14_Witness ==
    /\ callResult # <<>>
    /\ DOMAIN callArgs = {"Binance", "Bybit"}
    /\ QuoteIn(callArgs, "Binance", symbolOrder[1]) = 0 - 40
    /\ QuoteIn(callArgs, "Bybit", symbolOrder[1]) = 30
    /\ QuoteIn(callArgs, "Bybit", symbolOrder[2]) = NoQuote
    /\ callResult[1] =
            << RawOpp(1, symbolOrder[1], "Binance", "Bybit", 0 - 40, 30, 70, ""),
               RawOpp(1, symbolOrder[1], "Binance", "Bybit", 0 - 40, 30, 70, "") >>
    /\ getTopOpportunities(callResult[1], TopLimit) =
            << SimpleOpportunity(callResult[1][1]) >>

\* C15: every rule-2 candidate has the profit |r1 - r2| of two rates of
\* the same sign, is long on the exchange quoting the lower rate and
\* short on the one quoting the higher, and is the same in both
\* iteration orders of its exchanges.
C15_SameSignSpread ==
    callResult # <<>> =>
        \A i \in 1..Len(callResult[1]) :
            LET o == callResult[1][i]
            IN  o.scenarioId = 2 =>
                /\ o.longFundingRate = QuoteIn(callArgs, o.longExchange, o.symbol)
                /\ o.shortFundingRate = QuoteIn(callArgs, o.shortExchange, o.symbol)
                /\ o.longFundingRate < o.shortFundingRate
                /\ isSameSign(o.longFundingRate, o.shortFundingRate)
                /\ o.expectedProfit = o.shortFundingRate - o.longFundingRate
                /\ Cardinality({j \in 1..Len(callResult[1]) : callResult[1][j] = o}) = 2

\* Bybit 0.003 and OKX 0.007: a spread candidate of 0.004, long Bybit.
C15_Witness ==
    /\ callResult # <<>>
    /\ \E i \in 1..Len(callResult[1]) :
            callResult[1][i] =
                RawOpp(2, symbolOrder[2], "Bybit", "OKX", 30, 70, 40, "")

\* C16: every candidate in rawOpportunities has an expectedProfit of at
\* least the minProfitThreshold of its own rule.
C16_ProfitAtLeastThreshold ==
    \A i \in 1..Len(rawOpportunities) :
        rawOpportunities[i].expectedProfit
            >= minProfitThreshold(rawOpportunities[i].scenarioId)

\* C17: a size above maxPositionSize is rejected with the size reason
\* whatever the other checks say; a size equal to maxPositionSize does
\* not fail the size check.
C17_SizeLimit ==
    callResult # <<>> =>
        LET sizeReason ==
                \E i \in 1..Len(callResult[1].reasons) :
                    callResult[1].reasons[i] = "Position size exceeds maximum"
        IN  /\ callArgs.positionSize > MaxPositionSize
                => ~callResult[1].canOpen /\ sizeReason
            /\ callArgs.positionSize <= MaxPositionSize => ~sizeReason

\* A size one above the limit is rejected although every other check
\* passes.
C17_Witness ==
    /\ callArgs.positionSize = MaxPositionSize + 1
    /\ callArgs.currentPositions = <<>>
    /\ callArgs.portfolioValue = 100 * MaxPositionSize
    /\ callResult = <<[canOpen |-> FALSE,
                       reasons |-> <<"Position size exceeds maximum">>]>>

\* The reasons of the checks that fail for the arguments, in the order of
\* the checks.
FailingChecks ==
    (IF callArgs.positionSize <= MaxPositionSize
     THEN <<>> ELSE <<"Position size exceeds maximum">>)
    \o (IF Len(callArgs.currentPositions) < MaxOpenPositions
        THEN <<>> ELSE <<"Maximum number of positions reached">>)
    \o (IF callArgs.portfolioValue > 0
           /\ callArgs.positionSize * 100 <= MaxPortfolioRiskPct * callArgs.portfolioValue
        THEN <<>> ELSE <<"Position would exceed max portfolio risk">>)
    \o (IF \A i \in 1..Len(callArgs.currentPositions) :
              callArgs.currentPositions[i].symbol # callArgs.symbol
        THEN <<>> ELSE <<"High correlation with existing positions">>)

\* C18: the gate runs all four checks, allows exactly when none fails and
\* on rejection returns one reason per failing check, in their order.
C18_AllChecksRun ==
    callResult # <<>> =>
        /\ callResult[1].canOpen <=> (FailingChecks = <<>>)
        /\ ~callResult[1].canOpen => callResult[1].reasons = FailingChecks

\* All four checks fail at once and all four reasons are returned.
C18_Witness ==
    /\ callResult # <<>>
    /\ ~callResult[1].canOpen
    /\ Len(callResult[1].reasons) = 4
    /\ callResult[1].reasons = FailingChecks

\* The exchanges whose connector cycle c has called and got an answer or an
\* error from.
Called(c) == {exchanges[i] : i \in 1..(cycles[c].k - 1)}

\* The maps collectFundingRates can return in the step that ends the fetch of
\* cycle c: the lists collected so far, with the last exchange when it answers.
ReturnedMaps(c) ==
    {IF result.ok
     THEN (exchanges[cycles[c].k] :>
              [quotes |-> result.quotes, nextFundingTime |-> nextFundingTimeAt(now)])
          @@ cycles[c].fundingRates
     ELSE cycles[c].fundingRates :
        result \in ConnectorResults(exchanges[cycles[c].k])}

\* C19: whichever connectors fail, collectFundingRates holds exactly the
\* exchanges that answered (every exchange called so far but the failed
\* ones), and the scan goes on to collect its opportunities from the map of
\* the exchanges that are left and completes.
C19_FailureIsolatedPerExchange ==
    /\ [](\A c \in Cycles :
            cycles[c].pc = "fetch" =>
                /\ cycles[c].failed \subseteq Called(c)
                /\ DOMAIN cycles[c].fundingRates = Called(c) \ cycles[c].failed)
    /\ [][\A c \in Cycles :
            (cycles[c].pc = "fetch" /\ cycles'[c].pc = "done") =>
                /\ cycles'[c].outcome = "completed"
                /\ \E fundingRates \in ReturnedMaps(c) :
                      /\ DOMAIN fundingRates = Exchanges \ cycles'[c].failed
                      /\ rawOpportunities' = collectAll(fundingRates)]_vars

\* The first cycle lost Binance, completed and found opportunities between
\* the two exchanges left.
C19_Witness ==
    /\ cycles[1].pc = "done"
    /\ cycles[1].outcome = "completed"
    /\ cycles[1].failed = {"Binance"}
    /\ cycles[2].pc = "idle"
    /\ rawOpportunities # <<>>
    /\ \A i \in 1..Len(rawOpportunities) :
          {rawOpportunities[i].longExchange, rawOpportunities[i].shortExchange}
              = Exchanges \ {"Binance"}

\* A connector call of cycle c fails in this step.
FailsIn(c) == cycles'[c].failed # cycles[c].failed

\* C20: a failing collaborator call never leaves the cycle: the step in
\* which a connector fails keeps the scheduler enabled and its timer set, and
\* the cycle goes on to its next call or completes; after a cycle with
\* failures a scan tick of the enabled scheduler still starts a full cycle.
C20_ErrorsStayInsideTheCycle ==
    /\ [][\A c \in Cycles :
            FailsIn(c) =>
                /\ enabled' = enabled
                /\ intervalId' = intervalId
                /\ \/ cycles'[c].pc = "fetch"
                   \/ cycles'[c].pc = "done" /\ cycles'[c].outcome = "completed"]_vars
    /\ []((/\ \E c \in Cycles : cycles[c].failed # {}
           /\ enabled
           /\ nextCycle <= MaxCycles)
            => ENABLED (CronScan /\ cycles'[nextCycle].pc = "fetch"))

\* Every connector of the first cycle failed and the cycle completed; the
\* scheduler is still enabled with its timer set, and the second cycle ran
\* in full and opened a position.
C20_Witness ==
    /\ cycles[1].pc = "done"
    /\ cycles[1].outcome = "completed"
    /\ cycles[1].failed = Exchanges
    /\ enabled
    /\ intervalId
    /\ cycles[2].pc = "done"
    /\ cycles[2].outcome = "completed"
    /\ cycles[2].failed = {}
    /\ \E i \in 1..Len(activePositions) : activePositions[i].cycle = 2

\* C21: a close whose try block succeeds leaves the task CLOSED; a close
\* that raises an error leaves it FAILED with every other field as it was
\* and the task still in the list; no later cycle calls closePosition for a
\* CLOSED or FAILED task, whatever its age.
C21_UnwindingOutcome ==
    \A k \in 1..Len(callResult) :
        LET call == callResult[k]
        IN  /\ Len(call.positions) = Len(call.before)
            /\ \A n \in 1..Len(call.before) :
                  LET was == call.before[n]
                      is == call.positions[n]
                      due == call.t - was.executedAt > CloseAfterHours
                  IN  /\ [is EXCEPT !.status = was.status] = was
                      /\ (was.status = "ACTIVE" /\ due /\ n \notin call.throwing)
                            => is.status = "CLOSED"
                      /\ (was.status = "ACTIVE" /\ due /\ n \in call.throwing)
                            => is.status = "FAILED"
                      /\ (was.status # "ACTIVE" \/ ~due) => is = was

\* The first cycle's close of the first task raised an error and left it
\* FAILED; the second cycle, in which its close would raise no error, left
\* it FAILED and closed the other task.
C21_Witness ==
    /\ Len(callResult) = 2
    /\ Len(callArgs.positions) = 2
    /\ callResult[1].throwing = {1}
    /\ callResult[1].positions[1].status = "FAILED"
    /\ callResult[1].positions[2].status = "ACTIVE"
    /\ callResult[2].throwing = {}
    /\ callResult[2].positions[1].status = "FAILED"
    /\ callResult[2].positions[2].status = "CLOSED"

\* C22: when an error is raised inside executeOptimizedTrade, no ACTIVE
\* position of the opportunity is in the list afterwards.
C22_EntryFailureLeavesNoPosition ==
    (callResult # <<>> /\ callArgs.threw) =>
        ~\E n \in 1..Len(callResult[1]) :
            /\ callResult[1][n].status = "ACTIVE"
            /\ callResult[1][n].id =
                  <<callArgs.opportunity.scenarioId, callArgs.opportunity.symbol,
                    callArgs.t>>

\* AutoTradeScheduler.getActivePositionsCount, which the status endpoint
\* reports as activePositions.
getActivePositionsCount == Len(activePositions)

\* C23: the active task count of the status equals the number of tasks in
\* a non-terminal state; CLOSED and FAILED tasks are not counted.
C23_ActiveCountExcludesTerminal ==
    getActivePositionsCount =
        Cardinality({n \in 1..Len(activePositions) :
            activePositions[n].status \notin {"CLOSED", "FAILED"}})

\* C24: the risk manager keeps at most MaxAcknowledgedAlerts acknowledged
\* alerts.
C24_AcknowledgedAlertsBounded ==
    Cardinality({n \in 1..Len(alerts) : alerts[n].acknowledged})
        <= MaxAcknowledgedAlerts

\* The position is the execution of the opportunity.
ExecutionOf(position, opportunity) ==
    /\ position.scenarioId = opportunity.scenarioId
    /\ position.symbol = opportunity.symbol
    /\ position.longExchange = opportunity.longExchange
    /\ position.shortExchange = opportunity.shortExchange
    /\ position.longFundingRate = opportunity.longFundingRate
    /\ position.shortFundingRate = opportunity.shortFundingRate
    /\ position.expectedProfit = opportunity.expectedProfit

\* C25: the candidates a cycle ranks are exactly those of its own funding
\* snapshot, whatever earlier or concurrent cycles left in rawOpportunities,
\* and every task it starts executes one of the ranked candidates of that
\* snapshot.
C25_OpportunitiesOfOwnSnapshot ==
    [][\A c \in Cycles :
        (cycles[c].pc = "fetch" /\ cycles'[c].pc = "done") =>
            \E fundingRates \in ReturnedMaps(c) :
                LET ranked == getTopOpportunities(collectAll(fundingRates), TopLimit)
                IN  /\ rawOpportunities' = collectAll(fundingRates)
                    /\ Len(activePositions') >= Len(activePositions)
                    /\ \A n \in (Len(activePositions) + 1)..Len(activePositions') :
                          \E i \in 1..Len(ranked) :
                              ExecutionOf(activePositions'[n], ranked[i])]_vars

\* Both cycles have completed.  The first had Binance in its snapshot and
\* started a task long on Binance; the second lost Binance and the list it
\* left holds candidates, none of them with Binance.
C25_Witness ==
    /\ \A c \in Cycles : cycles[c].pc = "done" /\ cycles[c].outcome = "completed"
    /\ cycles[1].failed = {}
    /\ cycles[2].failed = {"Binance"}
    /\ \E n \in 1..Len(activePositions) :
          activePositions[n].cycle = 1 /\ activePositions[n].longExchange = "Binance"
    /\ rawOpportunities # <<>>
    /\ \A i \in 1..Len(rawOpportunities) :
          "Binance" \notin {rawOpportunities[i].longExchange,
                            rawOpportunities[i].shortExchange}

\* C26: the raw list of a cycle holds at most one candidate per symbol, rule
\* and pair of exchanges.
C26_OneCandidatePerPair ==
    callResult # <<>> =>
        \A i, j \in 1..Len(callResult[1]) :
            (/\ callResult[1][i].scenarioId = callResult[1][j].scenarioId
             /\ callResult[1][i].symbol = callResult[1][j].symbol
             /\ {callResult[1][i].longExchange, callResult[1][i].shortExchange}
                  = {callResult[1][j].longExchange, callResult[1][j].shortExchange})
                => i = j

ActiveOf(id) ==
    {n \in 1..Len(activePositions) :
        activePositions[n].scenarioId = id /\ activePositions[n].status = "ACTIVE"}

\* C28: whatever scans have run, no scenario has more than
\* maxPositionsPerScenario ACTIVE positions.
C28_ScenarioCap ==
    \A id \in 1..Len(scenarioIds) :
        Cardinality(ActiveOf(id)) <= MaxPositionsPerScenario

\* The first cycle has filled a scenario to its cap; the second cycle has
\* turned down a further opportunity on the cap and started no task.
C28_Witness ==
    \E id \in 1..Len(scenarioIds) :
        /\ Cardinality(ActiveOf(id)) = MaxPositionsPerScenario
        /\ \A n \in ActiveOf(id) : activePositions[n].cycle = 1
        /\ cycles[2].pc = "done"
        /\ cycles[2].capped # {}
        /\ \A n \in 1..Len(activePositions) : activePositions[n].cycle # 2

\* C29: in every step a position stays in the list at its index, an
\* ACTIVE position stays ACTIVE or becomes CLOSED or FAILED, and a CLOSED or
\* FAILED position keeps its status.
C29_TerminalStatesAbsorbing ==
    [][\A n \in 1..Len(activePositions) :
        /\ n <= Len(activePositions')
        /\ activePositions'[n].id = activePositions[n].id
        /\ activePositions[n].status = "ACTIVE"
              => activePositions'[n].status \in {"ACTIVE", "CLOSED", "FAILED"}
        /\ activePositions[n].status \in {"CLOSED", "FAILED"}
              => activePositions'[n].status = activePositions[n].status]_vars

\* A position of the first cycle is CLOSED, and the second cycle has since
\* opened a new position for its symbol.
C29_Witness ==
    \E n, m \in 1..Len(activePositions) :
        /\ n < m
        /\ activePositions[n].symbol = activePositions[m].symbol
        /\ activePositions[n].cycle = 1
        /\ activePositions[n].status = "CLOSED"
        /\ activePositions[m].cycle = 2
        /\ activePositions[m].status = "ACTIVE"
        /\ cycles[2].pc = "done"

\* What a scan tick, a funding check, enable and disable may not touch.
Ledger == <<activePositions, rawOpportunities, dailyPnL, lastResetDate,
            cycles, nextCycle, intervalId>>

\* C30: while config.enabled is false a scan tick, the pre-funding check
\* and the post-funding check start no fetch and leave rawOpportunities,
\* activePositions, dailyPnL and lastResetDate as they are, and enable and
\* disable change the enabled flag only.
C30_DisabledChangesNothing ==
    [][/\ (~enabled /\ (CronScan \/ IntervalScan \/ ForceScan))
            => UNCHANGED <<Ledger, enabled>>
       /\ (~enabled /\ (PreFundingCheck \/ PostFundingCheck))
            => UNCHANGED <<Ledger, enabled>>
       /\ (Enable \/ Disable) => UNCHANGED Ledger]_vars

\* The scheduler is disabled on the day after the last reset, a scan tick
\* can fire, and the post-funding check of this hour has run and has left
\* ACTIVE a position older than the holding period.
C30_Witness ==
    /\ ~enabled
    /\ now \div HoursPerDay # lastResetDate
    /\ nextCycle <= MaxCycles
    /\ now % FundingPeriodHours = 0
    /\ ~postDue
    /\ \E n \in 1..Len(activePositions) :
          /\ activePositions[n].status = "ACTIVE"
          /\ now - activePositions[n].executedAt > CloseAfterHours

====
